---- MODULE Spec2Model ----
(***************************************************************************)
(* Model of src/index.ts: the WebRFPlatform dynamic platform plugin.       *)
(*                                                                         *)
(* The plugin keeps this.accessories (the Entity Store), reconciles it     *)
(* against the remote action mapping once the host has restored its cache  *)
(* (DID_FINISH_LAUNCHING handler), and wires to every accessory a SET      *)
(* handler that acknowledges, schedules a 3000 ms reset and posts to the   *)
(* action URL.                                                             *)
(*                                                                         *)
(* JavaScript runs each callback to completion; the only suspension points *)
(* are the two awaits (axios.get, axios.post) and the timer.  The handler  *)
(* of a SET signal is split into its three statements, and `cur` keeps     *)
(* every other callback out while it runs.                                 *)
(***************************************************************************)
EXTENDS Integers, Sequences, FiniteSets, TLC

\* ---- bounds of the model ----
MaxPasses  == 2      \* DID_FINISH_LAUNCHING deliveries explored
MaxSignals == 2      \* SET signals explored
TickMs     == 1500   \* largest step by which the clock advances

\* ---- program constant ----
RESET_DELAY == 3000  \* setTimeout(..., 3000)

Keys  == {"a1", "a2"}
Names == {"Lamp", "Fan"}
\* config.url as configured: host, a trailing "/", trailing white space
Urls  == {<<"h", "/", " ">>}

Idle == [acc |-> 0, pc |-> "idle"]

NoInvoke == [acc |-> 0, outcome |-> "none"]

NoCall == [op |-> "none", action |-> "", calls |-> <<>>, log |-> <<>>]

VARIABLES
  configURL,    \* this.configURL
  remote,       \* the registry's mapping, in key order: Seq([key, name])
  toRestore,    \* cached accessories the host has not yet handed over, in order
  objs,         \* every PlatformAccessory object ever built; ids are indexes
  isOn,         \* value of the On characteristic of each object
  accessories,  \* this.accessories: Seq(id)
  registered,   \* ids the Host Entity Sink currently holds
  launches,     \* DID_FINISH_LAUNCHING deliveries so far
  fetching,     \* the launch handler is suspended in `await axios.get`
  pass,         \* the last launch handler run that left its await: its locals,
                \* the calls it made on the sink and what it logged
  signals,      \* SET signals delivered so far
  cur,          \* the SET handler now running: [acc, pc], or Idle
  timers,       \* scheduled reset timers, oldest first: Seq([acc, remaining])
  requests,     \* axios.post requests awaiting their response: Seq(id)
  lastInvoke,   \* what the last resumed SET handler logged: [acc, outcome]
  gets,         \* axios.get requests issued so far
  acked,        \* SET callbacks called so far
  posts,        \* axios.post requests issued so far
  resets,       \* updateValue(false) calls made by reset timers so far
  api           \* the last direct call of removeAccessory / removeAccessories

trigger == <<signals, cur, timers, requests, lastInvoke, acked, posts, resets>>

vars == <<configURL, remote, toRestore, objs, isOn, accessories, registered,
          launches, fetching, pass,
          signals, cur, timers, requests, lastInvoke,
          gets, acked, posts, resets, api>>

\* ---------------------------------------------------------------- helpers

Range(s) == {s[i] : i \in 1..Len(s)}

Min(a, b) == IF a < b THEN a ELSE b

Msg(level, text, arg) == [level |-> level, text |-> text, arg |-> arg]

\* String.prototype.trimRight takes no argument: it strips trailing white
\* space only, the "/" passed to it is ignored.
RECURSIVE trimRight(_)
trimRight(s) ==
  IF Len(s) > 0 /\ s[Len(s)] = " " THEN trimRight(SubSeq(s, 1, Len(s) - 1)) ELSE s

\* constructor, line 33
ConfigURL(url) == trimRight(url) \o <<"/api/v1/">>

\* hap.uuid.generate(name): a deterministic digest of its argument
uuidGenerate(name) == <<"uuid", name>>

\* _.difference(a, b): the elements of a not in b, in a's order
difference(a, b) == SelectSeq(a, LAMBDA x : x \notin Range(b))

\* _.keys(switchData)
keys(switchData) == [i \in 1..Len(switchData) |-> switchData[i].key]

\* switchData[action]
NameOf(switchData, action) ==
  switchData[CHOOSE i \in 1..Len(switchData) : switchData[i].key = action].name

\* `if (array)`: an array is an object, and every object is truthy, the
\* empty array included
Truthy(array) == TRUE

NewAccessory(name, action, url) ==
  [action |-> action, name |-> name, actionUrl |-> url,
   uuid |-> uuidGenerate(name), listeners |-> 0]

\* ------------------------------------------------- the platform's methods
\* They act on a record p of the fields a callback can touch:
\* [accessories, objs, isOn, registered], with the calls it has made on the
\* Host Entity Sink and the lines it has logged.

Platform ==
  [accessories |-> accessories, objs |-> objs, isOn |-> isOn,
   registered |-> registered, calls |-> <<>>, log |-> <<>>]

\* configureAccessory, lines 84-117
configureAccessory(p, id) ==
  [p EXCEPT !.log = Append(@, Msg("info", "Configuring accessory", <<p.objs[id].name>>)),
            !.objs[id].listeners = @ + 1,
            !.accessories = Append(@, id)]

\* api.registerPlatformAccessories, line 131
registerPlatformAccessories(p, ids) ==
  [p EXCEPT !.calls = Append(@, [op |-> "register", accs |-> ids]),
            !.registered = @ \cup Range(ids)]

\* api.unregisterPlatformAccessories, lines 144 and 150
unregisterPlatformAccessories(p, ids) ==
  [p EXCEPT !.calls = Append(@, [op |-> "unregister", accs |-> ids]),
            !.registered = @ \ Range(ids)]

\* addAccessory, lines 119-132
addAccessory(p, name, action) ==
  LET id == Len(p.objs) + 1
      p1 == [p EXCEPT !.log = Append(@, Msg("info", "Adding new accessory with name", <<name>>)),
                      !.objs = Append(@, NewAccessory(name, action, configURL \o <<action>>)),
                      !.isOn = Append(@, FALSE)]
  IN  registerPlatformAccessories(configureAccessory(p1, id), <<id>>)

\* removeAccessory without the test of accessoryToRemove.length
removeAccessoryUnchecked(p, action) ==
  LET accessoryToRemove == SelectSeq(p.accessories, LAMBDA id : p.objs[id].action = action)
      p1 == [p EXCEPT !.log = Append(@, Msg("info", "Removing accessory with action", <<action>>))]
  IN  unregisterPlatformAccessories(p1, accessoryToRemove)

\* removeAccessory, lines 134-145
removeAccessory(p, action) ==
  LET accessoryToRemove == SelectSeq(p.accessories, LAMBDA id : p.objs[id].action = action)
      p1 == [p EXCEPT !.log = Append(@, Msg("info", "Removing accessory with action", <<action>>))]
  IN  IF Len(accessoryToRemove) = 0
      THEN [p1 EXCEPT !.log = Append(@, Msg("error", "Unable to remove accessory", <<action>>))]
      ELSE unregisterPlatformAccessories(p1, accessoryToRemove)

\* removeAccessories, lines 147-152
removeAccessories(p) ==
  LET p1 == [p EXCEPT !.log = Append(@, Msg("info", "Removing all accessories", <<>>))]
      p2 == unregisterPlatformAccessories(p1, p1.accessories)
  IN  [p2 EXCEPT !.accessories = <<>>]

\* switchesToRemove.forEach(action => this.removeAccessory(action)), line 66
RECURSIVE forEachRemove(_, _)
forEachRemove(p, as) ==
  IF as = <<>> THEN p ELSE forEachRemove(removeAccessory(p, Head(as)), Tail(as))

\* switchesToAdd.forEach(action => this.addAccessory(switchData[action], action)), line 73
RECURSIVE forEachAdd(_, _, _)
forEachAdd(p, switchData, as) ==
  IF as = <<>> THEN p
  ELSE forEachAdd(addAccessory(p, NameOf(switchData, Head(as)), Head(as)), switchData, Tail(as))

\* const registeredSwitches = this.accessories.map(...), line 57
RegisteredSwitches(p) == [i \in 1..Len(p.accessories) |-> p.objs[p.accessories[i]].action]

\* reconcile with an early return when there is nothing to remove
reconcileSkip(p, switchData) ==
  LET registeredSwitches == RegisteredSwitches(p)
      switchActions      == keys(switchData)
      switchesToRemove   == difference(registeredSwitches, switchActions)
      switchesToAdd      == difference(switchActions, registeredSwitches)
  IN  IF switchesToRemove = <<>>
      THEN [p EXCEPT !.log = Append(@, Msg("info", "No switches to remove", <<>>))]
      ELSE forEachAdd(forEachRemove(p, switchesToRemove), switchData, switchesToAdd)

\* a pass that rebuilds: every held action is removed, every listed one added
reconcileRebuild(p, switchData) ==
  LET registeredSwitches == RegisteredSwitches(p)
      switchActions      == keys(switchData)
  IN  forEachAdd(forEachRemove(p, registeredSwitches), switchData, switchActions)

\* lines 57-76 of the launch handler, once switches.data.data has been read
reconcile(p, switchData) ==
  LET registeredSwitches == RegisteredSwitches(p)
      switchActions      == keys(switchData)
      switchesToRemove   == difference(registeredSwitches, switchActions)
      switchesToAdd      == difference(switchActions, registeredSwitches)
      p1 == IF Truthy(switchesToRemove)
            THEN forEachRemove(
                   [p EXCEPT !.log = Append(@, Msg("info", "Removing switches", switchesToRemove))],
                   switchesToRemove)
            ELSE [p EXCEPT !.log = Append(@, Msg("info", "No switches to remove", <<>>))]
  IN  IF Truthy(switchesToAdd)
      THEN forEachAdd(
             [p1 EXCEPT !.log = Append(@, Msg("info", "Adding switches", switchesToAdd))],
             switchData, switchesToAdd)
      ELSE [p1 EXCEPT !.log = Append(@, Msg("info", "No switches to add", <<>>))]

\* ------------------------------------------------------------ initial state

KeyOrder == <<"a1", "a2">>

\* the keys of S in the order the registry lists them
Listed(S) == SelectSeq(KeyOrder, LAMBDA k : k \in S)

RemoteMappings ==
  UNION { { [i \in 1..Len(Listed(S)) |-> [key |-> Listed(S)[i], name |-> n[Listed(S)[i]]]]
            : n \in [S -> Names] }
          : S \in SUBSET Keys }

\* what an earlier run left in the host's cache: accessories this plugin
\* registered, one per action, no two with the same UUID
Caches ==
  UNION { { [i \in 1..Len(Listed(S)) |-> [action |-> Listed(S)[i], name |-> n[Listed(S)[i]]]]
            : n \in {m \in [S -> Names] : \A x, y \in S : m[x] = m[y] => x = y} }
          : S \in SUBSET Keys }

NoPass ==
  [response |-> "none", result |-> "none", before |-> <<>>, calls |-> <<>>, log |-> <<>>]

Init ==
  /\ configURL \in {ConfigURL(u) : u \in Urls}
  /\ remote \in RemoteMappings
  /\ toRestore \in Caches
  /\ objs = <<>>
  /\ isOn = <<>>
  /\ accessories = <<>>
  /\ registered = {}
  /\ launches = 0
  /\ fetching = FALSE
  /\ pass = NoPass
  /\ signals = 0
  /\ cur = Idle
  /\ timers = <<>>
  /\ requests = <<>>
  /\ lastInvoke = NoInvoke
  /\ gets = 0
  /\ acked = 0
  /\ posts = 0
  /\ resets = 0
  /\ api = NoCall

\* ------------------------------------------------------------------ actions

Commit(p) ==
  /\ accessories' = p.accessories
  /\ objs' = p.objs
  /\ isOn' = p.isOn
  /\ registered' = p.registered

\* The host rebuilds the next cached accessory and calls configureAccessory
\* on it (lines 80-84, 37-42).  A cached accessory is one the sink holds.
RestoreAccessory ==
  /\ cur = Idle
  /\ toRestore # <<>>
  /\ LET c  == Head(toRestore)
         id == Len(objs) + 1
         p1 == [Platform EXCEPT
                  !.objs = Append(@, NewAccessory(c.name, c.action, configURL \o <<c.action>>)),
                  !.isOn = Append(@, FALSE),
                  !.registered = @ \cup {id}]
     IN  /\ Commit(configureAccessory(p1, id))
         /\ toRestore' = Tail(toRestore)
  /\ UNCHANGED <<configURL, remote, launches, fetching, pass, trigger, gets, api>>

\* the handler started at construction, before the cache is restored
LaunchAnytime == TRUE

\* The host emits DID_FINISH_LAUNCHING once it "restored all cached
\* accessories from disk and did call their respective configureAccessory
\* method for all of them" (lines 37-43).
LaunchEnabled == toRestore = <<>>

\* launch handler up to the await, lines 43-51
Launch ==
  /\ LaunchEnabled
  /\ launches < MaxPasses
  /\ ~fetching
  /\ cur = Idle
  /\ launches' = launches + 1
  /\ gets' = gets + 1
  /\ fetching' = TRUE
  /\ UNCHANGED <<configURL, remote, toRestore, objs, isOn, accessories, registered,
                 pass, trigger, api>>

\* what axios.get can come back with: a transport error, the mapping, a
\* body without data.data, a body that is null
Responses == {"error", "ok", "noData", "nullBody"}

\* the record of a handler run: how it ended, the store it found, and the
\* sink calls and log lines of p
PassRecord(response, result, p) ==
  [response |-> response, result |-> result, before |-> accessories,
   calls |-> p.calls, log |-> p.log]

\* LaunchResult with the catch block's `return` missing
LaunchResultFallThrough(response) ==
  LET logged == [Platform EXCEPT !.log = <<Msg("error", "Failed to access server!", <<>>)>>]
  IN  CASE response = "error"    -> [result |-> "aborted", p |-> reconcile(logged, <<>>)]
        [] response = "nullBody" -> [result |-> "threw", p |-> Platform]
        [] response = "noData"   -> [result |-> "done", p |-> reconcile(Platform, <<>>)]
        [] response = "ok"       -> [result |-> "done", p |-> reconcile(Platform, remote)]

\* launch handler from the await on, lines 52-76
LaunchResult(response) ==
  CASE response = "error" ->
         \* catch: log.error, return (lines 52-55)
         [result |-> "aborted",
          p |-> [Platform EXCEPT !.log = <<Msg("error", "Failed to access server!", <<>>)>>]]
    [] response = "nullBody" ->
         \* switches.data is null: reading .data of it throws, line 58
         [result |-> "threw", p |-> Platform]
    [] response = "noData" ->
         \* switches.data.data is undefined: _.keys(undefined) is []
         [result |-> "done", p |-> reconcile(Platform, <<>>)]
    [] response = "ok" ->
         [result |-> "done", p |-> reconcile(Platform, remote)]

FetchResume(response) ==
  /\ fetching
  /\ cur = Idle
  /\ fetching' = FALSE
  /\ LET r == LaunchResult(response)
     IN  /\ pass' = PassRecord(response, r.result, r.p)
         /\ Commit(r.p)
  /\ UNCHANGED <<configURL, remote, toRestore, launches, trigger, gets, api>>

\* ---- the SET handler of one accessory, lines 92-114

\* A handler that returns after callback() when the switch is turned off.
SignalOnOnly(id, value) ==
  /\ cur = Idle
  /\ launches > 0
  /\ id \in registered
  /\ objs[id].listeners > 0
  /\ signals < MaxSignals
  /\ signals' = signals + 1
  /\ cur' = IF value THEN [acc |-> id, pc |-> "setTimeout"] ELSE Idle
  /\ acked' = acked + 1
  /\ isOn' = [isOn EXCEPT ![id] = value]
  /\ UNCHANGED <<configURL, remote, toRestore, objs, accessories, registered,
                 launches, fetching, pass, timers, requests, lastInvoke,
                 gets, posts, resets, api>>

\* A handler that calls callback() only after the awaited request: the SET
\* is taken, nothing is acknowledged and the characteristic keeps its value.
SignalAckLater(id, value) ==
  /\ cur = Idle
  /\ launches > 0
  /\ id \in registered
  /\ objs[id].listeners > 0
  /\ signals < MaxSignals
  /\ signals' = signals + 1
  /\ cur' = [acc |-> id, pc |-> "setTimeout"]
  /\ UNCHANGED <<configURL, remote, toRestore, objs, isOn, accessories, registered,
                 launches, fetching, pass, timers, requests, lastInvoke,
                 gets, acked, posts, resets, api>>

\* The host delivers a SET to an accessory it holds, once the bridge is
\* published.  Lines 92-94: log, then callback(), on which the
\* characteristic takes the signalled value.
Signal(id, value) ==
  /\ cur = Idle
  /\ launches > 0
  /\ id \in registered
  /\ objs[id].listeners > 0
  /\ signals < MaxSignals
  /\ signals' = signals + 1
  /\ cur' = [acc |-> id, pc |-> "setTimeout"]
  /\ acked' = acked + 1
  /\ isOn' = [isOn EXCEPT ![id] = value]
  /\ UNCHANGED <<configURL, remote, toRestore, objs, accessories, registered,
                 launches, fetching, pass, timers, requests, lastInvoke,
                 gets, posts, resets, api>>

\* a setTimeout that first clears the timer the accessory already has
ScheduleResetCoalesced(ts, id) ==
  Append(SelectSeq(ts, LAMBDA t : t.acc # id), [acc |-> id, remaining |-> RESET_DELAY])

\* setTimeout(..., 3000), lines 96-99
ScheduleReset(ts, id) == Append(ts, [acc |-> id, remaining |-> RESET_DELAY])

SetTimeout ==
  /\ cur.pc = "setTimeout"
  /\ timers' = ScheduleReset(timers, cur.acc)
  /\ cur' = [cur EXCEPT !.pc = "post"]
  /\ UNCHANGED <<configURL, remote, toRestore, objs, isOn, accessories, registered,
                 launches, fetching, pass, signals, requests, lastInvoke,
                 gets, acked, posts, resets, api>>

\* axios.post(accessory.context.actionUrl) is issued and the handler
\* suspends, lines 101-103
Post ==
  /\ cur.pc = "post"
  /\ requests' = Append(requests, cur.acc)
  /\ posts' = posts + 1
  /\ cur' = Idle
  /\ UNCHANGED <<configURL, remote, toRestore, objs, isOn, accessories, registered,
                 launches, fetching, pass, signals, timers, lastInvoke,
                 gets, acked, resets, api>>

\* what axios.post can come back with: status "ok", another status, a
\* transport error
Outcomes == {"ok", "failed", "error"}

Without(s, i) == SubSeq(s, 1, i - 1) \o SubSeq(s, i + 1, Len(s))

\* InvokeEffect with the switch turned off as soon as the call has failed
InvokeEffectWrites(i, outcome) ==
  /\ requests' = Without(requests, i)
  /\ lastInvoke' = [acc |-> requests[i], outcome |-> outcome]
  /\ isOn' = IF outcome = "ok" THEN isOn ELSE [isOn EXCEPT ![requests[i]] = FALSE]
  /\ UNCHANGED <<configURL, remote, toRestore, objs, accessories, registered,
                 launches, fetching, pass, signals, cur, timers,
                 gets, acked, posts, resets, api>>

\* the handler from the await on, lines 104-113
InvokeEffect(i, outcome) ==
  /\ requests' = Without(requests, i)
  /\ lastInvoke' = [acc |-> requests[i], outcome |-> outcome]
  /\ UNCHANGED <<configURL, remote, toRestore, objs, isOn, accessories, registered,
                 launches, fetching, pass, signals, cur, timers,
                 gets, acked, posts, resets, api>>

\* a handler that posts again when the request threw
InvokeRetry(i, outcome) ==
  /\ cur = Idle
  /\ IF outcome = "error"
     THEN /\ requests' = Append(Without(requests, i), requests[i])
          /\ posts' = posts + 1
          /\ lastInvoke' = [acc |-> requests[i], outcome |-> outcome]
          /\ UNCHANGED <<configURL, remote, toRestore, objs, isOn, accessories,
                         registered, launches, fetching, pass, signals, cur, timers,
                         gets, acked, resets, api>>
     ELSE InvokeEffect(i, outcome)

InvokeResume(i, outcome) ==
  /\ cur = Idle
  /\ InvokeEffect(i, outcome)

\* ---- the clock and the reset timers

\* time passes, never beyond the next timer's expiry (all timers have the
\* same delay, so the oldest expires first)
Tick ==
  /\ cur = Idle
  /\ timers # <<>>
  /\ timers[1].remaining > 0
  /\ LET d == Min(TickMs, timers[1].remaining)
     IN  timers' = [i \in 1..Len(timers) |-> [timers[i] EXCEPT !.remaining = @ - d]]
  /\ UNCHANGED <<configURL, remote, toRestore, objs, isOn, accessories, registered,
                 launches, fetching, pass, signals, cur, requests, lastInvoke,
                 gets, acked, posts, resets, api>>

\* a timer callback that also drops its accessory from this.accessories
ResetEffectEvicts(id) ==
  /\ isOn' = [isOn EXCEPT ![id] = FALSE]
  /\ timers' = Tail(timers)
  /\ resets' = resets + 1
  /\ accessories' = SelectSeq(accessories, LAMBDA a : a # id)
  /\ UNCHANGED <<configURL, remote, toRestore, objs, registered,
                 launches, fetching, pass, signals, cur, requests, lastInvoke,
                 gets, acked, posts, api>>

\* the timer callback, lines 96-99: updateValue(false) on the accessory
\* the closure captured
ResetEffect(id) ==
  /\ isOn' = [isOn EXCEPT ![id] = FALSE]
  /\ timers' = Tail(timers)
  /\ resets' = resets + 1
  /\ UNCHANGED <<configURL, remote, toRestore, objs, accessories, registered,
                 launches, fetching, pass, signals, cur, requests, lastInvoke,
                 gets, acked, posts, api>>

\* expired timers run in the order they were set
TimerFire ==
  /\ cur = Idle
  /\ timers # <<>>
  /\ timers[1].remaining = 0
  /\ ResetEffect(timers[1].acc)

\* The program as the host drives it: DID_FINISH_LAUNCHING is emitted once.
Next ==
  \/ RestoreAccessory
  \/ (launches = 0 /\ Launch)
  \/ \E r \in Responses : FetchResume(r)
  \/ \E id \in 1..Len(objs), v \in BOOLEAN : Signal(id, v)
  \/ SetTimeout
  \/ Post
  \/ \E i \in 1..Len(requests), o \in Outcomes : InvokeResume(i, o)
  \/ Tick
  \/ TimerFire

Spec == Init /\ [][Next]_vars

\* The event loop runs a started handler up to its await, the clock advances
\* and a timer that is due runs.  Nothing obliges the host to send a signal
\* or the remote service to answer.
FairSpec ==
  /\ Spec
  /\ WF_vars(SetTimeout)
  /\ WF_vars(Post)
  /\ WF_vars(Tick)
  /\ WF_vars(TimerFire)

\* The reconciler alone, its handler run again on every further delivery
\* of the event.
SyncNext ==
  \/ RestoreAccessory
  \/ Launch
  \/ \E r \in Responses : FetchResume(r)

SyncSpec == Init /\ [][SyncNext]_vars

\* ------------------------------------------------------------------- claims

\* ---- the platform's methods called directly

\* removeAccessory(action) called on the platform object, lines 134-145
RemoveAccessory(action) ==
  /\ cur = Idle
  /\ LET p == removeAccessory(Platform, action)
     IN  /\ api' = [op |-> "removeAccessory", action |-> action,
                    calls |-> p.calls, log |-> p.log]
         /\ Commit(p)
  /\ UNCHANGED <<configURL, remote, toRestore, launches, fetching, pass, trigger, gets>>

\* removeAccessories() called on the platform object, lines 147-152
RemoveAccessories ==
  /\ cur = Idle
  /\ LET p == removeAccessories(Platform)
     IN  /\ api' = [op |-> "removeAccessories", action |-> "",
                    calls |-> p.calls, log |-> p.log]
         /\ Commit(p)
  /\ UNCHANGED <<configURL, remote, toRestore, launches, fetching, pass, trigger, gets>>

\* The reconciler together with direct calls of the two removal methods.
ApiNext ==
  \/ RestoreAccessory
  \/ Launch
  \/ \E r \in Responses : FetchResume(r)
  \/ \E action \in Keys : RemoveAccessory(action)
  \/ RemoveAccessories

ApiSpec == Init /\ [][ApiNext]_vars

StoreKeys == {objs[accessories[i]].action : i \in 1..Len(accessories)}

RemoteKeys == {remote[i].key : i \in 1..Len(remote)}

\* the step on which a launch handler comes back from its await
PassEnds == fetching /\ ~fetching'

\* the step on which a reset timer runs
TimerRuns == Len(timers') < Len(timers)

\* the step on which a SET handler comes back from its await
InvokeEnds == Len(requests') < Len(requests)

\* the calls of the last pass that name an accessory of key k
CallsOn(op, k) ==
  {i \in 1..Len(pass.calls) :
     /\ pass.calls[i].op = op
     /\ \E j \in 1..Len(pass.calls[i].accs) : objs[pass.calls[i].accs[j]].action = k}

\* C1: once a pass whose fetch succeeded has completed, the keys held in
\* this.accessories are the keys of the remote mapping, one accessory each.
C1_StoreMirrorsRemote ==
  pass.response = "ok" =>
    /\ StoreKeys = RemoteKeys
    /\ \A k \in RemoteKeys :
         Cardinality({i \in 1..Len(accessories) : objs[accessories[i]].action = k}) = 1

\* C2: a pass that follows a successful pass against the same remote
\* mapping issues no register and no unregister.
C2_SecondPassIdle ==
  [][(pass.response = "ok" /\ PassEnds /\ pass'.response = "ok") => pass'.calls = <<>>]_vars

\* C3: a pass over local keys L and remote keys R unregisters each key of
\* L \ R once and nothing else, and registers each key of R \ L once and
\* nothing else, whichever of the two differences is empty.
C3_DiffApplied ==
  pass.response = "ok" =>
    LET L == {objs[pass.before[i]].action : i \in 1..Len(pass.before)}
        R == RemoteKeys
    IN  /\ \A k \in Keys :
             /\ Cardinality(CallsOn("unregister", k)) = (IF k \in L \ R THEN 1 ELSE 0)
             /\ Cardinality(CallsOn("register", k)) = (IF k \in R \ L THEN 1 ELSE 0)
        /\ \A i \in 1..Len(pass.calls) : Len(pass.calls[i].accs) = 1

\* C3 witness: local {a1, a2}, remote {a1}: the pass unregistered a2 and
\* registered nothing.
C3_Witness ==
  /\ pass.response = "ok"
  /\ Len(pass.before) = 2
  /\ RemoteKeys = {"a1"}
  /\ Len(pass.calls) = 1
  /\ pass.calls[1].op = "unregister"

\* C4: a pass whose list-actions request fails registers and unregisters
\* nothing, leaves the store and its accessories as they were, and logs an
\* error.
C4_FetchFailureAborts ==
  [][(PassEnds /\ pass'.response = "error") =>
       /\ UNCHANGED <<accessories, objs, isOn, registered>>
       /\ pass'.calls = <<>>
       /\ pass'.result = "aborted"
       /\ \E i \in 1..Len(pass'.log) : pass'.log[i].level = "error"]_vars

\* C4 witness: a failed fetch over a store that holds accessories the
\* remote mapping lacks.
C4_Witness ==
  /\ pass.response = "error"
  /\ pass.result = "aborted"
  /\ pass.log # <<>>
  /\ StoreKeys \ RemoteKeys # {}
  /\ Range(accessories) \subseteq registered

\* C5: a response without a data.data mapping is handled like a failed
\* fetch: the pass aborts, calls nothing on the sink and throws nothing.
C5_MalformedAborts ==
  pass.response \in {"noData", "nullBody"} =>
    /\ pass.result # "threw"
    /\ pass.calls = <<>>
    /\ accessories = pass.before

\* C6: right after a SET has been acknowledged the accessory is on, and the
\* reset timer of that SET runs exactly when its 3000 ms have elapsed and
\* leaves the accessory off.
C6_ActivationResetLaw ==
  [][/\ (signals' = signals + 1) => isOn'[cur'.acc] = TRUE
     /\ TimerRuns => (timers[1].remaining = 0 /\ isOn'[timers[1].acc] = FALSE)]_vars

\* C7: whatever a remote invocation comes back with, the step that handles
\* it writes neither isOn nor the timers nor the store; it only logs.  And
\* a reset timer turns its accessory off whatever was logged.
C7_OutcomeIndependence ==
  [][/\ InvokeEnds =>
          /\ UNCHANGED <<isOn, timers, accessories, objs, registered, signals, cur, pass>>
          /\ lastInvoke'.outcome \in Outcomes
     /\ TimerRuns => (isOn'[timers[1].acc] = FALSE /\ lastInvoke' = lastInvoke)]_vars

\* C7 witness: an invocation has failed while the reset timer of its
\* accessory is still pending, and the accessory is still on.
C7_Witness ==
  /\ lastInvoke.outcome = "failed"
  /\ isOn[lastInvoke.acc] = TRUE
  /\ \E i \in 1..Len(timers) : timers[i].acc = lastInvoke.acc /\ timers[i].remaining > 0

\* C8: no accessory ever has two reset timers scheduled and not yet run.
C8_OneTimerPerEntity ==
  \A id \in 1..Len(objs) :
    Cardinality({i \in 1..Len(timers) : timers[i].acc = id}) <= 1

\* C9: a reset timer never writes to an accessory that has been
\* unregistered.
C9_NoWriteAfterDestroy ==
  [][TimerRuns => timers[1].acc \in registered]_vars

\* C10: the launch handler starts only when no cached accessory is left to
\* restore, and the store never holds two accessories of the same key.
C10_RestoreBeforeFirstPass ==
  /\ launches > 0 => toRestore = <<>>
  /\ \A i, j \in 1..Len(accessories) :
       objs[accessories[i]].action = objs[accessories[j]].action => i = j

\* C10 witness: the first pass has run over a restored accessory whose key
\* the remote mapping still lists.
C10_Witness ==
  /\ launches = 1
  /\ pass.response = "ok"
  /\ \E i \in 1..Len(pass.before) : objs[pass.before[i]].action \in RemoteKeys

\* C11: on every activation callback() is called before the invoke request
\* is issued and before the reset timer can run, and it never waits for the
\* request to complete: every SET taken so far is acknowledged, while the
\* requests issued and the timers scheduled or run never outnumber the
\* acknowledgements.
C11_AckFirst ==
  /\ acked = signals
  /\ posts <= acked
  /\ Len(timers) + resets <= acked
  /\ Len(requests) <= posts

\* a SET is acknowledged while its request is unanswered and its timer has
\* not run
C11_Witness ==
  /\ acked = 1
  /\ Len(requests) = 1
  /\ lastInvoke = NoInvoke
  /\ Len(timers) = 1
  /\ resets = 0

\* C12: nothing is retried.  Each delivery of DID_FINISH_LAUNCHING has issued
\* exactly one axios.get and each SET whose handler has reached its await
\* exactly one axios.post, whatever came back: a failed fetch or a failed
\* invoke is followed by no further request.
C12_NoRetry ==
  /\ gets = launches
  /\ posts + (IF cur = Idle THEN 0 ELSE 1) = signals
  /\ Len(requests) <= posts

\* the fetch failed and the invoke threw, and one request of each kind was sent
C12_Witness ==
  /\ pass.response = "error"
  /\ gets = 1
  /\ lastInvoke.outcome = "error"
  /\ posts = 1
  /\ requests = <<>>

\* C13: a pass that reads the mapping leaves every accessory of the store
\* whose action is a key of the mapping as it was: it is in no register or
\* unregister call, it stays (un)registered as before, it is held as often
\* as before, no second accessory is made for its action, and its action,
\* name, actionUrl and On value are the same, also when the mapping gives
\* the key another name.
C13_KeptUntouched ==
  [][(PassEnds /\ pass'.response = "ok") =>
       \A i \in 1..Len(accessories) :
         LET id == accessories[i]
         IN  objs[id].action \in RemoteKeys =>
               /\ objs'[id] = objs[id]
               /\ isOn'[id] = isOn[id]
               /\ (id \in registered') = (id \in registered)
               /\ \A c \in 1..Len(pass'.calls) : id \notin Range(pass'.calls[c].accs)
               /\ Len(SelectSeq(accessories', LAMBDA a : a = id))
                    = Len(SelectSeq(accessories, LAMBDA a : a = id))
               /\ \A j \in (Len(objs) + 1)..Len(objs') :
                    objs'[j].action # objs[id].action]_vars

\* a pass has ended on a store holding a key of the mapping under another
\* name than the mapping gives it
C13_Witness ==
  /\ pass.response = "ok"
  /\ \E i \in 1..Len(pass.before) :
       LET id == pass.before[i]
       IN  /\ objs[id].action \in RemoteKeys
           /\ objs[id].name # NameOf(remote, objs[id].action)
           /\ id \in registered

\* C14: a SET, the resumption of its request and its reset timer leave
\* this.accessories, the accessories made and the host's registrations as
\* they are; only restoring and the pass change them.
C14_TriggerKeepsStore ==
  [][(trigger' # trigger) => UNCHANGED <<accessories, objs, registered>>]_vars

\* an activation has run to its end, failed invoke and reset included, on a
\* store that holds accessories
C14_Witness ==
  /\ accessories # <<>>
  /\ lastInvoke.outcome = "failed"
  /\ resets > 0
  /\ timers = <<>>
  /\ requests = <<>>

\* C15: every accessory a pass has made for a key k of the mapping has
\* action k, actionUrl equal to the configured URL without its trailing
\* slashes and white space, followed by the API path and k, the name the
\* mapping gives k and On false; it is once in this.accessories, has one SET
\* listener and was registered once.
C15_CreatedEntity ==
  pass.response = "ok" =>
    \A c \in 1..Len(pass.calls) :
      pass.calls[c].op = "register" =>
        \A id \in Range(pass.calls[c].accs) :
          \E u \in Urls :
            LET n == CHOOSE n \in 0..Len(u) :
                       /\ n = 0 \/ u[n] \notin {"/", " "}
                       /\ \A m \in (n + 1)..Len(u) : u[m] \in {"/", " "}
            IN  /\ ConfigURL(u) = configURL
                /\ objs[id].action \in RemoteKeys
                /\ objs[id].actionUrl = SubSeq(u, 1, n) \o <<"/api/v1/", objs[id].action>>
                /\ objs[id].name = NameOf(remote, objs[id].action)
                /\ isOn[id] = FALSE
                /\ Len(SelectSeq(accessories, LAMBDA a : a = id)) = 1
                /\ objs[id].listeners = 1
                /\ id \in registered
                /\ Len(SelectSeq(pass.calls, LAMBDA d : id \in Range(d.accs))) = 1

\* C16: removeAccessory called with an action no accessory of the store has
\* makes no call on the host, changes neither this.accessories nor any
\* accessory nor the registrations, logs an error line and returns.
C16_RemoveUnknownNoOp ==
  [][(api' # api /\ api'.op = "removeAccessory" /\ api'.action \notin StoreKeys) =>
       /\ api'.calls = <<>>
       /\ UNCHANGED <<accessories, objs, isOn, registered>>
       /\ \E l \in 1..Len(api'.log) : api'.log[l].level = "error"]_vars

\* removeAccessory has returned from a call with an action that a non-empty
\* store does not hold
C16_Witness ==
  /\ api.op = "removeAccessory"
  /\ api.action \notin StoreKeys
  /\ accessories # <<>>
  /\ registered # {}
  /\ \E l \in 1..Len(api.log) : api.log[l].text = "Unable to remove accessory"

\* C17: two accessories a pass has made for different actions have
\* different UUIDs, whatever names the mapping gives the two keys.
C17_DistinctUuids ==
  \A c, d \in 1..Len(pass.calls) :
    (pass.calls[c].op = "register" /\ pass.calls[d].op = "register") =>
      \A i \in Range(pass.calls[c].accs), j \in Range(pass.calls[d].accs) :
        objs[i].action # objs[j].action => objs[i].uuid # objs[j].uuid

\* C18: n SET signals lead to exactly n axios.post requests and exactly n
\* updateValue(false) calls by timers.  At every moment each SET taken has
\* its one request issued (or its handler is still before the await) and its
\* one timer either pending or run, on an accessory that exists: no timer is
\* cleared or merged.  And the n-th SET is followed, in the end, by the n-th
\* request and the n-th reset write.
C18_OneResetPerSignal ==
  /\ [](/\ posts + (IF cur = Idle THEN 0 ELSE 1) = signals
        /\ resets + Len(timers) + (IF cur.pc = "setTimeout" THEN 1 ELSE 0) = signals
        /\ \A t \in 1..Len(timers) : timers[t].acc \in 1..Len(objs))
  /\ [][TimerRuns => (resets' = resets + 1 /\ Len(timers') = Len(timers) - 1)]_vars
  /\ \A n \in 1..MaxSignals : (signals = n) ~> (posts >= n /\ resets >= n)

\* the only accessory has taken two SETs; both requests were issued and both
\* timers have run
C18_Witness ==
  /\ Len(objs) = 1
  /\ signals = 2
  /\ posts = 2
  /\ resets = 2
  /\ timers = <<>>

\* C19: the SET handler does not look at the signalled value.  Every SET
\* taken starts the handler; and whichever value v the characteristic took
\* from the signal, the handler sets a timer of 3000 ms for its accessory
\* and then posts to the accessory's actionUrl.
C19_ValueIgnored ==
  [][/\ (signals' = signals + 1) =>
          (cur'.pc = "setTimeout" /\ acked' = acked + 1 /\ UNCHANGED <<timers, requests>>)
     /\ \A v \in BOOLEAN :
          /\ (cur.pc = "setTimeout" /\ isOn[cur.acc] = v /\ cur' # cur) =>
                /\ timers' = Append(timers, [acc |-> cur.acc, remaining |-> RESET_DELAY])
                /\ cur' = [acc |-> cur.acc, pc |-> "post"]
          /\ (cur.pc = "post" /\ isOn[cur.acc] = v /\ cur' # cur) =>
                /\ requests' = Append(requests, cur.acc)
                /\ posts' = posts + 1
                /\ cur' = Idle]_vars

\* the one SET taken so far carried false: no timer has run, the accessory
\* is off, and its timer is set and its request issued
C19_Witness ==
  /\ signals = 1
  /\ resets = 0
  /\ cur = Idle
  /\ Len(timers) = 1
  /\ timers[1].remaining = RESET_DELAY
  /\ isOn[timers[1].acc] = FALSE
  /\ requests = <<timers[1].acc>>

====
